---------------------------- MODULE Spec2Model ----------------------------
(***************************************************************************)
(* A model of devika's inference orchestration and accounting core:        *)
(*   src/src/state.py    AgentState, the project state store               *)
(*   src/src/llm/llm.py  LLM (catalog, inference, polling loop) and        *)
(*                       TokenAccountingModule (usage ledger)              *)
(*                                                                         *)
(* Time is counted in ticks of a quarter of a second.  The column          *)
(* state_stack_json holds the JSON text of a list of dicts whose values    *)
(* are strings, integers, booleans and None; the model keeps the decoded   *)
(* list (json.loads(json.dumps(x)) = x for such values).                   *)
(***************************************************************************)
EXTENDS Integers, Sequences, FiniteSets, TLC

(***************************************************************************)
(* Bounds of the model.                                                    *)
(***************************************************************************)
MaxTok == 1
MaxStoreOps == 4
MaxCalls == 2
MaxTimeoutSec == 6
\* the longest a sleep of SleepTicks is taken to overrun (scheduling delay), in ticks
SleepJitter == 1
\* log_usage calls made by the ledger threads
MaxLogs == 2

(***************************************************************************)
(* Program constants.                                                      *)
(***************************************************************************)
\* time.sleep(0.5): the polling interval, in ticks
SleepTicks == 2
\* a second is two polling intervals
TicksPerSec == 2 * SleepTicks
\* int(elapsed_time) == 5: the slow-warning second
SlowSecond == 5

Projects == {"p1", "p2"}
Threads == {"t1", "t2"}
Callers == {"c1", "c2"}
None == "None"

VARIABLES
    db,          \* table agent_state: sequence of rows [id, project, stack]
    th,          \* store threads: the operation each one is in
    sumDelta,    \* per project: sum of the deltas of finished update_token_usage calls
    autoViv,     \* per project: some update_token_usage call found no row
    nOps,        \* store operations started
    call,        \* per caller: the locals of its LLM.inference call
    counted,     \* per project: tokens counted by update_global_token_usage
    overlapped,  \* per project: two inference calls were in flight together
    ledger,      \* logs/token_usage_log.txt: the appended lines
    nCalls,      \* inference calls started
    callers,     \* the threads that call LLM.inference
    timeout,     \* config.get_timeout_inference(), seconds
    lmLive,      \* LMStudio().client is not None
    ollamaModels, \* ollama.models, the names the local runtime lists (none without a client)
    exists,      \* os.path.exists(log_file_path)
    writable,    \* open() on the ledger path succeeds (it raises IOError otherwise)
    meter,       \* per TokenAccountingModule instance: how far its __init__ has got
    lock,        \* per TokenAccountingModule instance: the thread holding self._lock
    wr,          \* ledger threads: the TokenAccountingModule call each one is in
    appended,    \* the lines the log_usage calls have written, in order
    nLogs        \* log_usage calls started

vars == <<db, th, sumDelta, autoViv, nOps, call, counted, overlapped, ledger,
          nCalls, callers, timeout, lmLive, ollamaModels, exists, writable, meter,
          lock, wr, appended, nLogs>>
storeVars == <<th, sumDelta, autoViv, nOps>>
inferVars == <<call, counted, overlapped, ledger, nCalls, callers, timeout, lmLive,
               ollamaModels>>
meterVars == <<exists, writable, meter, lock, wr, appended, nLogs>>
restVars == <<db, storeVars, call, counted, overlapped, nCalls, callers, timeout, lmLive,
              ollamaModels>>

(***************************************************************************)
(* state.py: the snapshots and the table.                                  *)
(***************************************************************************)
new_state ==
    [internal_monologue |-> "",
     browser_session |-> [url |-> None, screenshot |-> None],
     terminal_session |-> [command |-> None, output |-> None, title |-> None],
     step |-> 0,
     message |-> None,
     completed |-> FALSE,
     agent_is_active |-> TRUE,
     token_usage |-> 0,
     timestamp |-> "ts"]

Last(s) == s[Len(s)]

\* the positions of the rows of project p
RowsOf(d, p) == {i \in DOMAIN d : d[i].project = p}

Min(S) == CHOOSE x \in S : \A y \in S : x <= y
Max(S) == CHOOSE x \in S : \A y \in S : x >= y

\* session.exec(select(...).where(project == p)).first(): the row's id, 0 for None
SelectFirst(d, p) ==
    IF RowsOf(d, p) = {} THEN 0 ELSE d[Min(RowsOf(d, p))].id

\* json.loads(agent_state.state_stack_json) of the row with this id
StackOf(d, id) == d[CHOOSE i \in DOMAIN d : d[i].id = id].stack

\* INTEGER PRIMARY KEY without AUTOINCREMENT: the largest rowid plus one
NextRowId(d) == IF d = <<>> THEN 1 ELSE Max({d[i].id : i \in DOMAIN d}) + 1

\* session.add(AgentStateModel(project, state_stack_json)); session.commit()
InsertRow(d, p, stack) ==
    Append(d, [id |-> NextRowId(d), project |-> p, stack |-> stack])

\* agent_state.state_stack_json = ...; session.commit(): UPDATE ... WHERE id = ?
UpdateRow(d, id, stack) ==
    [i \in DOMAIN d |-> IF d[i].id = id THEN [d[i] EXCEPT !.stack = stack] ELSE d[i]]

\* the commit of a session that read row sel (0: none) and built stack
CommitStack(d, sel, p, stack) ==
    IF sel = 0 THEN InsertRow(d, p, stack) ELSE UpdateRow(d, sel, stack)

\* create_state: the one-element stack it stores
create_state_stack ==
    <<[new_state EXCEPT !.step = 1, !.internal_monologue = "I'm starting the work..."]>>

AddTokenUsageSet(top, n) == [top EXCEPT !.token_usage = n]

\* state_stack[-1]["token_usage"] += token_usage
AddTokenUsage(top, n) == [top EXCEPT !.token_usage = @ + n]

\* the count of a new row left at 0
update_token_usage_stack_zero(d, p, n) ==
    IF SelectFirst(d, p) # 0
    THEN LET s == StackOf(d, SelectFirst(d, p))
         IN  [s EXCEPT ![Len(s)] = AddTokenUsage(s[Len(s)], n)]
    ELSE <<new_state>>

\* update_token_usage, up to the commit: the stack the session holds
update_token_usage_stack(d, p, n) ==
    IF SelectFirst(d, p) # 0
    THEN LET s == StackOf(d, SelectFirst(d, p))
         IN  [s EXCEPT ![Len(s)] = AddTokenUsage(s[Len(s)], n)]
    ELSE <<[new_state EXCEPT !.token_usage = n]>>

get_latest_token_usage(d, p) ==
    IF SelectFirst(d, p) # 0
    THEN Last(StackOf(d, SelectFirst(d, p))).token_usage
    ELSE 0

\* get_current_state: the stack of the first row; <<>> stands for None (no
\* stored stack is empty)
get_current_state(d, p) ==
    IF SelectFirst(d, p) # 0 THEN StackOf(d, SelectFirst(d, p)) ELSE <<>>

\* the snapshots callers push or put on top: new_state() with fields filled
\* in (strings, numbers, booleans and None, which json.dumps and json.loads
\* give back as they were)
Snapshots == {[new_state EXCEPT !.step = 2, !.internal_monologue = "thinking"]}

\* the stack being the pushed snapshot alone
add_to_current_state_stack_fresh(d, p, state) == <<state>>

\* add_to_current_state, up to the commit: state_stack.append(state), or [state]
add_to_current_state_stack(d, p, state) ==
    IF SelectFirst(d, p) # 0
    THEN Append(StackOf(d, SelectFirst(d, p)), state)
    ELSE <<state>>

\* the snapshot appended instead of put on top
update_latest_state_stack_push(d, p, state) ==
    IF SelectFirst(d, p) # 0
    THEN Append(StackOf(d, SelectFirst(d, p)), state)
    ELSE <<state>>

\* update_latest_state, up to the commit: state_stack[-1] = state, or [state]
update_latest_state_stack(d, p, state) ==
    IF SelectFirst(d, p) # 0
    THEN LET s == StackOf(d, SelectFirst(d, p))
         IN  [s EXCEPT ![Len(s)] = state]
    ELSE <<state>>

\* the flag set in every element of the stack
set_agent_active_stack_all(d, p, is_active) ==
    IF SelectFirst(d, p) # 0
    THEN LET s == StackOf(d, SelectFirst(d, p))
         IN  [i \in DOMAIN s |-> [s[i] EXCEPT !.agent_is_active = is_active]]
    ELSE <<[new_state EXCEPT !.agent_is_active = is_active]>>

\* set_agent_active, up to the commit
set_agent_active_stack(d, p, is_active) ==
    IF SelectFirst(d, p) # 0
    THEN LET s == StackOf(d, SelectFirst(d, p))
         IN  [s EXCEPT ![Len(s)].agent_is_active = is_active]
    ELSE <<[new_state EXCEPT !.agent_is_active = is_active]>>

\* the completion monologue set for a project without a row too
set_agent_completed_stack_monologue(d, p, is_completed) ==
    IF SelectFirst(d, p) # 0
    THEN LET s == StackOf(d, SelectFirst(d, p))
         IN  [s EXCEPT ![Len(s)].internal_monologue = "Agent has completed the task.",
                       ![Len(s)].completed = is_completed]
    ELSE <<[new_state EXCEPT !.internal_monologue = "Agent has completed the task.",
                             !.completed = is_completed]>>

\* set_agent_completed, up to the commit
set_agent_completed_stack(d, p, is_completed) ==
    IF SelectFirst(d, p) # 0
    THEN LET s == StackOf(d, SelectFirst(d, p))
         IN  [s EXCEPT ![Len(s)].internal_monologue = "Agent has completed the task.",
                       ![Len(s)].completed = is_completed]
    ELSE <<[new_state EXCEPT !.completed = is_completed]>>

\* result.all(): the ids of the rows of project p
SelectAll(d, p) == {d[i].id : i \in RowsOf(d, p)}

\* only the oldest of the rows deleted
DeleteFirstRow(d, ids) ==
    IF ids = {} THEN d ELSE SelectSeq(d, LAMBDA r : r.id # Min(ids))

\* session.delete(state) for each row read; session.commit()
DeleteRows(d, ids) == SelectSeq(d, LAMBDA r : r.id \notin ids)

(***************************************************************************)
(* The store's operations, each run by a thread in its own Session.  The   *)
(* SELECT and the commit of one operation are two steps: the sqlite driver *)
(* opens the transaction at the first write, so other sessions can commit  *)
(* between them.                                                           *)
(***************************************************************************)
IdleThread ==
    [op |-> "idle", project |-> None, n |-> 0, sel |-> 0, stk |-> <<>>, ids |-> {},
     state |-> new_state, flag |-> FALSE, did |-> "none", on |-> None, emit |-> <<>>]

\* the top of the stack alone as the payload
emit_agent_top(state_stack) == <<Last(state_stack)>>

\* emit_agent("agent-state", state_stack): the payload of the event
emit_agent(state_stack) == state_stack

\* the thread after operation op on project p: idle, the operation and the
\* payload of the "agent-state" event it emitted noted (<<>>: no event)
Done(op, p, emitted) == [IdleThread EXCEPT !.did = op, !.on = p, !.emit = emitted]

\* create_state(project): INSERT only, one commit
create_state(t, p) ==
    /\ th[t].op = "idle"
    /\ nOps < MaxStoreOps
    /\ db' = InsertRow(db, p, create_state_stack)
    /\ th' = [th EXCEPT ![t] = Done("create_state", p, emit_agent(create_state_stack))]
    /\ nOps' = nOps + 1
    /\ UNCHANGED <<sumDelta, autoViv>>
    /\ UNCHANGED <<inferVars, meterVars>>

\* update_token_usage(project, token_usage): the SELECT and the change in memory
update_token_usage_read(t, p, n) ==
    /\ th[t].op = "idle"
    /\ nOps < MaxStoreOps
    /\ th' = [th EXCEPT ![t] = [IdleThread EXCEPT !.op = "update_token_usage",
                                                  !.project = p, !.n = n,
                                                  !.sel = SelectFirst(db, p),
                                                  !.stk = update_token_usage_stack(db, p, n)]]
    /\ autoViv' = [autoViv EXCEPT ![p] = @ \/ SelectFirst(db, p) = 0]
    /\ nOps' = nOps + 1
    /\ UNCHANGED <<db, sumDelta>>
    /\ UNCHANGED <<inferVars, meterVars>>

\* update_token_usage: session.commit()
update_token_usage_commit(t) ==
    /\ th[t].op = "update_token_usage"
    /\ db' = CommitStack(db, th[t].sel, th[t].project, th[t].stk)
    /\ sumDelta' = [sumDelta EXCEPT ![th[t].project] = @ + th[t].n]
    /\ th' = [th EXCEPT ![t] = Done(th[t].op, th[t].project, <<>>)]
    /\ UNCHANGED <<autoViv, nOps>>
    /\ UNCHANGED <<inferVars, meterVars>>

\* add_to_current_state(project, state): the SELECT and the change in memory
add_to_current_state_read(t, p, state) ==
    /\ th[t].op = "idle"
    /\ nOps < MaxStoreOps
    /\ th' = [th EXCEPT ![t] = [IdleThread EXCEPT !.op = "add_to_current_state",
                                                  !.project = p, !.state = state,
                                                  !.sel = SelectFirst(db, p),
                                                  !.stk = add_to_current_state_stack(db, p, state)]]
    /\ nOps' = nOps + 1
    /\ UNCHANGED <<db, sumDelta, autoViv>>
    /\ UNCHANGED <<inferVars, meterVars>>

\* update_latest_state(project, state): the SELECT and the change in memory
update_latest_state_read(t, p, state) ==
    /\ th[t].op = "idle"
    /\ nOps < MaxStoreOps
    /\ th' = [th EXCEPT ![t] = [IdleThread EXCEPT !.op = "update_latest_state",
                                                  !.project = p, !.state = state,
                                                  !.sel = SelectFirst(db, p),
                                                  !.stk = update_latest_state_stack(db, p, state)]]
    /\ nOps' = nOps + 1
    /\ UNCHANGED <<db, sumDelta, autoViv>>
    /\ UNCHANGED <<inferVars, meterVars>>

\* set_agent_active(project, is_active): the SELECT and the change in memory
set_agent_active_read(t, p, is_active) ==
    /\ th[t].op = "idle"
    /\ nOps < MaxStoreOps
    /\ th' = [th EXCEPT ![t] = [IdleThread EXCEPT !.op = "set_agent_active",
                                                  !.project = p, !.flag = is_active,
                                                  !.sel = SelectFirst(db, p),
                                                  !.stk = set_agent_active_stack(db, p, is_active)]]
    /\ nOps' = nOps + 1
    /\ UNCHANGED <<db, sumDelta, autoViv>>
    /\ UNCHANGED <<inferVars, meterVars>>

\* set_agent_completed(project, is_completed): the SELECT and the change in memory
set_agent_completed_read(t, p, is_completed) ==
    /\ th[t].op = "idle"
    /\ nOps < MaxStoreOps
    /\ th' = [th EXCEPT ![t] = [IdleThread EXCEPT !.op = "set_agent_completed",
                                                  !.project = p, !.flag = is_completed,
                                                  !.sel = SelectFirst(db, p),
                                                  !.stk = set_agent_completed_stack(db, p, is_completed)]]
    /\ nOps' = nOps + 1
    /\ UNCHANGED <<db, sumDelta, autoViv>>
    /\ UNCHANGED <<inferVars, meterVars>>

\* the operations that end with session.commit() of the stack and emit it
StackOps == {"add_to_current_state", "update_latest_state", "set_agent_active",
             "set_agent_completed"}

\* session.commit() of one of them: the INSERT or the UPDATE of the row read
state_stack_commit(t) ==
    /\ th[t].op \in StackOps
    /\ db' = CommitStack(db, th[t].sel, th[t].project, th[t].stk)
    /\ th' = [th EXCEPT ![t] = Done(th[t].op, th[t].project, emit_agent(th[t].stk))]
    /\ UNCHANGED <<sumDelta, autoViv, nOps>>
    /\ UNCHANGED <<inferVars, meterVars>>

\* delete_state(project): the SELECT of all the rows of the project
delete_state_read(t, p) ==
    /\ th[t].op = "idle"
    /\ nOps < MaxStoreOps
    /\ th' = [th EXCEPT ![t] = [IdleThread EXCEPT !.op = "delete_state", !.project = p,
                                                  !.ids = SelectAll(db, p)]]
    /\ nOps' = nOps + 1
    /\ UNCHANGED <<db, sumDelta, autoViv>>
    /\ UNCHANGED <<inferVars, meterVars>>

\* delete_state: if agent_states: the rows are deleted and the session commits
delete_state_commit(t) ==
    /\ th[t].op = "delete_state"
    /\ db' = DeleteRows(db, th[t].ids)
    /\ th' = [th EXCEPT ![t] = Done(th[t].op, th[t].project, <<>>)]
    /\ UNCHANGED <<sumDelta, autoViv, nOps>>
    /\ UNCHANGED <<inferVars, meterVars>>

IdleCall ==
    [pc |-> "idle", model_id |-> "", project |-> None, ptok |-> 0, rtok |-> 0,
     sel |-> 0, stk |-> <<>>, clk |-> 0, slept |-> 0, worker |-> "none",
     inTime |-> FALSE, hb |-> 0, warn |-> 0, err |-> 0, nUpd |-> 0, nTok |-> 0,
     lastTokens |-> 0, lastStored |-> 0, nLog |-> 0, nLogCall |-> 0, logErr |-> 0,
     submitted |-> FALSE, asked |-> "", found |-> <<None, None>>, trace |-> <<>>]

(***************************************************************************)
(* llm.py: TokenAccountingModule, the usage ledger.  A line of the file is *)
(* a record; the timestamp and the elapsed time of a line are left out.    *)
(* Money is counted in units of 0.00001 of the currency, the precision the *)
(* line prints the cost with.                                              *)
(***************************************************************************)
Meters == {"m1", "m2"}
Writers == {"w1", "w2"}
\* model_name: a name of the rate table, and a model id as LLM.inference passes it
LogModels == {"Gemini 2.5 Pro", "gpt-4o"}

\* DEFAULT_MODEL_RATES: 0.00025 and 0.0005 USD per token
DEFAULT_MODEL_RATES ==
    [m \in {"Gemini 2.5 Pro"} |->
        [input_per_token |-> 25, output_per_token |-> 50, currency |-> "USD"]]

\* self.default_rate
default_rate == [input_per_token |-> 0, output_per_token |-> 0, currency |-> "USD"]

\* self.log_header
log_header == [line |-> "header"]

\* _get_rate: the exact name, else the default rate
get_rate(model_name) ==
    IF model_name \in DOMAIN DEFAULT_MODEL_RATES THEN DEFAULT_MODEL_RATES[model_name]
    ELSE default_rate

\* _get_currency_symbol
get_currency_symbol(currency) ==
    CASE currency = "USD" -> "$"
      [] currency = "TWD" -> "NT$"
      [] currency = "EUR" -> "E"
      [] OTHER -> currency

\* the cost of the input tokens alone
calculate_cost_input_only(model_name, input_tokens, output_tokens) ==
    input_tokens * get_rate(model_name).input_per_token

\* _calculate_cost
calculate_cost(model_name, input_tokens, output_tokens) ==
    input_tokens * get_rate(model_name).input_per_token
        + output_tokens * get_rate(model_name).output_per_token

\* log_usage: the line built from the arguments
log_entry(model_name, input_tokens, output_tokens) ==
    [line |-> "entry", model_name |-> model_name, input_tokens |-> input_tokens,
     output_tokens |-> output_tokens, total_tokens |-> input_tokens + output_tokens,
     estimated_cost |-> calculate_cost(model_name, input_tokens, output_tokens),
     currency_symbol |-> get_currency_symbol(get_rate(model_name).currency)]

IdleWriter == [pc |-> "idle", meter |-> None, entry |-> log_header, ret |-> log_header,
               failed |-> FALSE, returned |-> FALSE]

\* TokenAccountingModule(...): __init__ up to the call of _ensure_log_file_exists;
\* the instance has its own threading.Lock()
construct(w, m) ==
    /\ wr[w].pc = "idle"
    /\ meter[m] = "none"
    /\ meter' = [meter EXCEPT ![m] = "init"]
    /\ wr' = [wr EXCEPT ![w] = [IdleWriter EXCEPT !.pc = "ensure", !.meter = m]]
    /\ UNCHANGED <<ledger, exists, writable, lock, appended, nLogs>>
    /\ UNCHANGED restVars

\* _ensure_log_file_exists: if not os.path.exists(self.log_file_path)
ensure_check(w) ==
    /\ wr[w].pc = "ensure"
    /\ wr' = [wr EXCEPT ![w].pc = IF exists THEN "idle" ELSE "create"]
    /\ meter' = [meter EXCEPT ![wr[w].meter] = IF exists THEN "built" ELSE @]
    /\ UNCHANGED <<ledger, exists, writable, lock, appended, nLogs>>
    /\ UNCHANGED restVars

\* _ensure_log_file_exists: open(path, "w") empties the file, the header is
\* written to it; an IOError is caught
ensure_create(w) ==
    /\ wr[w].pc = "create"
    /\ ledger' = IF writable THEN <<log_header>> ELSE ledger
    /\ exists' = (exists \/ writable)
    /\ wr' = [wr EXCEPT ![w].pc = "idle"]
    /\ meter' = [meter EXCEPT ![wr[w].meter] = "built"]
    /\ UNCHANGED <<writable, lock, appended, nLogs>>
    /\ UNCHANGED restVars


\* log_usage(model_name, input_tokens, output_tokens, ...): the line is built
log_usage_entry(w, m, model_name, input_tokens, output_tokens) ==
    /\ wr[w].pc = "idle"
    /\ meter[m] = "built"
    /\ nLogs < MaxLogs
    /\ nLogs' = nLogs + 1
    /\ wr' = [wr EXCEPT ![w] =
                [IdleWriter EXCEPT !.pc = "acquire", !.meter = m,
                                   !.entry = log_entry(model_name, input_tokens, output_tokens)]]
    /\ UNCHANGED <<ledger, exists, writable, meter, lock, appended>>
    /\ UNCHANGED restVars

\* with self._lock: entered once the instance's lock is free
lock_acquire(w) ==
    /\ wr[w].pc = "acquire"
    /\ lock[wr[w].meter] = None
    /\ lock' = [lock EXCEPT ![wr[w].meter] = w]
    /\ wr' = [wr EXCEPT ![w].pc = "open"]
    /\ UNCHANGED <<ledger, exists, writable, meter, appended, nLogs>>
    /\ UNCHANGED restVars

\* the lock left held
lock_exit_held(lk, m) == lk

\* with self._lock: left, normally or by an exception
lock_exit(lk, m) == [lk EXCEPT ![m] = None]

\* open(path, "a"): the file is created if absent; an IOError leaves the
\* with-block, which releases the lock, and is caught
file_open(w) ==
    /\ wr[w].pc = "open"
    /\ exists' = (exists \/ writable)
    /\ lock' = IF writable THEN lock ELSE lock_exit(lock, wr[w].meter)
    /\ wr' = [wr EXCEPT ![w].pc = IF writable THEN "write" ELSE "return",
                        ![w].failed = ~writable]
    /\ UNCHANGED <<ledger, writable, meter, appended, nLogs>>
    /\ UNCHANGED restVars

\* f.write(log_entry) and the close of the file
file_write(w) ==
    /\ wr[w].pc = "write"
    /\ ledger' = Append(ledger, wr[w].entry)
    /\ appended' = Append(appended, wr[w].entry)
    /\ wr' = [wr EXCEPT ![w].pc = "release"]
    /\ UNCHANGED <<exists, writable, meter, lock, nLogs>>
    /\ UNCHANGED restVars

\* the end of the with self._lock block
lock_release(w) ==
    /\ wr[w].pc = "release"
    /\ lock' = lock_exit(lock, wr[w].meter)
    /\ wr' = [wr EXCEPT ![w].pc = "return"]
    /\ UNCHANGED <<ledger, exists, writable, meter, appended, nLogs>>
    /\ UNCHANGED restVars

\* return log_entry (the threshold warning before it only prints)
log_usage_return(w) ==
    /\ wr[w].pc = "return"
    /\ wr' = [wr EXCEPT ![w].pc = "idle", ![w].ret = wr[w].entry, ![w].returned = TRUE]
    /\ UNCHANGED <<ledger, exists, writable, meter, lock, appended, nLogs>>
    /\ UNCHANGED restVars

\* a step of a ledger thread in a call it has begun, or a construction
WriterStep(w) ==
    \/ \E m \in Meters : construct(w, m)
    \/ ensure_check(w)
    \/ ensure_create(w)
    \/ lock_acquire(w)
    \/ file_open(w)
    \/ file_write(w)
    \/ lock_release(w)
    \/ log_usage_return(w)

(***************************************************************************)
(* llm.py: the catalog and its resolution.                                 *)
(***************************************************************************)
\* LLM.models, flattened in the dict's order: <<family, display name, model id>>
StaticModels ==
    << <<"CLAUDE", "Claude 3 Opus", "claude-3-opus-20240229">>,
       <<"CLAUDE", "Claude 3 Sonnet", "claude-3-sonnet-20240229">>,
       <<"CLAUDE", "Claude 3 Haiku", "claude-3-haiku-20240307">>,
       <<"CLAUDE", "Claude 3.5 Sonnet", "claude-3-5-sonnet-20241022">>,
       <<"OPENAI", "GPT-4o-mini", "gpt-4o-mini">>,
       <<"OPENAI", "GPT-4o", "gpt-4o">>,
       <<"OPENAI", "GPT-4 Turbo", "gpt-4-turbo">>,
       <<"OPENAI", "GPT-3.5 Turbo", "gpt-3.5-turbo-0125">>,
       <<"GOOGLE", "Gemini 1.0 Pro", "gemini-pro">>,
       <<"GOOGLE", "Gemini 1.5 Flash", "gemini-1.5-flash">>,
       <<"GOOGLE", "Gemini 1.5 Pro", "gemini-1.5-pro">>,
       <<"GOOGLE", "Gemini 2.0 Flash", "gemini-2.0-flash">>,
       <<"GOOGLE", "Gemini 2.5 Pro (Preview 05-06)", "gemini-2.5-pro-preview-05-06">>,
       <<"MISTRAL", "Mistral 7b", "open-mistral-7b">>,
       <<"MISTRAL", "Mistral 8x7b", "open-mixtral-8x7b">>,
       <<"MISTRAL", "Mistral Medium", "mistral-medium-latest">>,
       <<"MISTRAL", "Mistral Small", "mistral-small-latest">>,
       <<"MISTRAL", "Mistral Large", "mistral-large-latest">>,
       <<"GROQ", "LLAMA3 8B", "llama3-8b-8192">>,
       <<"GROQ", "LLAMA3 70B", "llama3-70b-8192">>,
       <<"GROQ", "LLAMA2 70B", "llama2-70b-4096">>,
       <<"GROQ", "Mixtral", "mixtral-8x7b-32768">>,
       <<"GROQ", "GEMMA 7B", "gemma-7b-it">> >>

LMStudioModels == << <<"LM_STUDIO", "LM Studio", "local-model">> >>

\* self.models["OLLAMA"] = [(name, name) for model in ollama.models]
OllamaEntries(names) == [i \in DOMAIN names |-> <<"OLLAMA", names[i], names[i]>>]

\* the items of self.models in iteration order: ..., GROQ, OLLAMA, LM_STUDIO
models(names) == StaticModels \o OllamaEntries(names) \o LMStudioModels

\* a model id accepted in place of the display name
model_enum_by_id(names, model_name) ==
    LET cat == models(names)
        hits == {i \in DOMAIN cat : cat[i][2] = model_name \/ cat[i][3] = model_name}
    IN  IF hits = {} THEN <<None, None>>
        ELSE <<cat[Max(hits)][1], cat[Max(hits)][3]>>

\* model_enum: the dict comprehension keeps the last entry of a display name;
\* .get(model_name, (None, None))
model_enum(names, model_name) ==
    LET cat == models(names)
        hits == {i \in DOMAIN cat : cat[i][2] = model_name}
    IN  IF hits = {} THEN <<None, None>>
        ELSE <<cat[Max(hits)][1], cat[Max(hits)][3]>>

\* self.model_enum(model_name), called on its own: the pair it returns
model_enum_call(c, model_name) ==
    /\ c \in callers
    /\ call[c].pc = "idle"
    /\ call' = [call EXCEPT ![c].asked = model_name,
                            ![c].found = model_enum(ollamaModels, model_name)]
    /\ UNCHANGED <<db, counted, overlapped, ledger, nCalls, callers, timeout, lmLive, ollamaModels>>
    /\ UNCHANGED <<storeVars, meterVars>>

\* every family metered, the local ones included
paid_apis_all == {"OPENAI", "CLAUDE", "GOOGLE", "MISTRAL", "GROQ", "OLLAMA", "LM_STUDIO"}

paid_apis == {"OPENAI", "CLAUDE", "GOOGLE", "MISTRAL", "GROQ"}

(***************************************************************************)
(* llm.py: LLM.inference, one action per step of the calling thread, and   *)
(* the worker thread of its ThreadPoolExecutor.                            *)
(***************************************************************************)
InFlight(c) == call[c].pc \notin {"idle", "returned", "raised", "exited"}

\* the string update_global_token_usage is counting: the prompt, then the response
CurTok(c) == IF call[c].pc \in {"p_commit", "p_emit"} THEN call[c].ptok ELSE call[c].rtok

\* total = agentState.get_latest_token_usage(project_name) + token_usage
EmittedTotal(stored, n) == stored + n

\* inference(prompt, project_name), entered; update_global_token_usage(prompt):
\* the token count and update_token_usage up to its commit
inference_start(c, m, p, n) ==
    /\ c \in callers
    /\ call[c].pc \in {"idle", "returned", "raised"}
    /\ nCalls < MaxCalls
    /\ nCalls' = nCalls + 1
    /\ call' = [call EXCEPT ![c] =
                  [IdleCall EXCEPT !.pc = "p_commit", !.model_id = m, !.project = p,
                                   !.ptok = n, !.sel = SelectFirst(db, p),
                                   !.stk = update_token_usage_stack(db, p, n)]]
    /\ counted' = [counted EXCEPT ![p] = @ + n]
    /\ overlapped' = [overlapped EXCEPT ![p] =
                        @ \/ \E o \in callers \ {c} : InFlight(o) /\ call[o].project = p]
    /\ UNCHANGED <<db, ledger, callers, timeout, lmLive, ollamaModels>>
    /\ UNCHANGED <<storeVars, meterVars>>

\* update_token_usage: session.commit()
token_usage_commit(c) ==
    /\ call[c].pc \in {"p_commit", "r_commit"}
    /\ db' = CommitStack(db, call[c].sel, call[c].project, call[c].stk)
    /\ call' = [call EXCEPT ![c].pc = IF @ = "p_commit" THEN "p_emit" ELSE "r_emit",
                            ![c].nUpd = @ + 1,
                            ![c].trace = Append(@, IF call[c].pc = "p_commit" THEN "prompt"
                                                   ELSE "response")]
    /\ UNCHANGED <<counted, overlapped, ledger, nCalls, callers, timeout, lmLive, ollamaModels>>
    /\ UNCHANGED <<storeVars, meterVars>>

\* update_global_token_usage: get_latest_token_usage, emit_agent("tokens", total)
token_usage_emit(c) ==
    /\ call[c].pc \in {"p_emit", "r_emit"}
    /\ LET stored == get_latest_token_usage(db, call[c].project)
       IN  call' = [call EXCEPT ![c].pc = IF @ = "p_emit" THEN "resolve" ELSE "returned",
                                ![c].lastStored = stored,
                                ![c].lastTokens = EmittedTotal(stored, CurTok(c)),
                                ![c].nTok = @ + 1]
    /\ UNCHANGED <<db, counted, overlapped, ledger, nCalls, callers, timeout, lmLive, ollamaModels>>
    /\ UNCHANGED <<storeVars, meterVars>>

Family(c) == model_enum(ollamaModels, call[c].model_id)[1]
ModelName(c) == model_enum(ollamaModels, call[c].model_id)[2]

\* model_enum is None: raise ValueError
inference_unsupported(c) ==
    /\ call[c].pc = "resolve"
    /\ Family(c) = None
    /\ call' = [call EXCEPT ![c].pc = "raised"]
    /\ UNCHANGED <<db, counted, overlapped, ledger, nCalls, callers, timeout, lmLive, ollamaModels>>
    /\ UNCHANGED <<storeVars, meterVars>>

\* model_mapping, start_time, input_tokens, executor.submit(model.inference, ...)
inference_submit(c) ==
    /\ call[c].pc = "resolve"
    /\ Family(c) # None
    /\ call' = [call EXCEPT ![c].pc = "poll", ![c].clk = 0, ![c].worker = "running",
                            ![c].submitted = TRUE, ![c].trace = Append(@, "adapter")]
    /\ UNCHANGED <<db, counted, overlapped, ledger, nCalls, callers, timeout, lmLive, ollamaModels>>
    /\ UNCHANGED <<storeVars, meterVars>>

TimeoutTicks == timeout * TicksPerSec

\* the worker thread: model.inference returns (ok) or raises
worker_finish(c, ok, r) ==
    /\ call[c].worker = "running"
    /\ (Family(c) = "LM_STUDIO" /\ ~lmLive) => ~ok
    /\ ok \/ r = 0
    /\ call' = [call EXCEPT ![c].worker = IF ok THEN "ok" ELSE "raised",
                            ![c].rtok = r,
                            ![c].inTime = (call[c].pc \in {"poll", "sleep"}
                                           /\ call[c].clk <= TimeoutTicks)]
    /\ UNCHANGED <<db, counted, overlapped, ledger, nCalls, callers, timeout, lmLive, ollamaModels>>
    /\ UNCHANGED <<storeVars, meterVars>>

SlowWarningDueUpTo(clk) == clk \div TicksPerSec <= SlowSecond

\* int(elapsed_time) == 5
SlowWarningDue(clk) == clk \div TicksPerSec = SlowSecond

\* elapsed_time > self.timeout_inference
TimedOut(clk) == clk > TimeoutTicks

\* one pass of the while True loop, up to time.sleep
poll(c) ==
    /\ call[c].pc = "poll"
    /\ call' = [call EXCEPT
                  ![c].hb = @ + 1,
                  ![c].warn = IF SlowWarningDue(call[c].clk) THEN @ + 1 ELSE @,
                  ![c].slept = 0,
                  ![c].pc = IF TimedOut(call[c].clk) THEN "exc_timeout"
                            ELSE IF call[c].worker # "running" THEN "result"
                            ELSE "sleep"]
    /\ UNCHANGED <<db, counted, overlapped, ledger, nCalls, callers, timeout, lmLive, ollamaModels>>
    /\ UNCHANGED <<storeVars, meterVars>>

\* the while True loop as a whole, without its clock: it is left by break
\* only once the future is done, and by TimeoutError whatever the worker
\* does; every pass emits a heartbeat, so at least one is emitted
await_future(c, timedOut) ==
    /\ call[c].pc = "poll"
    /\ ~timedOut => call[c].worker # "running"
    /\ call' = [call EXCEPT ![c].hb = @ + 1,
                            ![c].pc = IF timedOut THEN "exc_timeout" ELSE "result"]
    /\ UNCHANGED <<db, counted, overlapped, ledger, nCalls, callers, timeout, lmLive, ollamaModels>>
    /\ UNCHANGED <<storeVars, meterVars>>

\* time.sleep(0.5), a tick at a time: it returns after SleepTicks, or later
sleep_tick(c, wake) ==
    /\ call[c].pc = "sleep"
    /\ call[c].slept + 1 < SleepTicks => ~wake
    /\ call[c].slept + 1 = SleepTicks + SleepJitter => wake
    /\ call' = [call EXCEPT ![c].clk = @ + 1, ![c].slept = @ + 1,
                            ![c].pc = IF wake THEN "poll" ELSE "sleep"]
    /\ UNCHANGED <<db, counted, overlapped, ledger, nCalls, callers, timeout, lmLive, ollamaModels>>
    /\ UNCHANGED <<storeVars, meterVars>>

\* the response counted without the ledger
after_result_unlogged(raised, family) == IF raised THEN "exc_error" ELSE "r_read"

\* where inference goes on after future.result(): to the except clause, to
\* log_usage for a metered family, else to the count of the response
after_result(raised, family) ==
    IF raised THEN "exc_error"
    ELSE IF family \in paid_apis THEN "log_usage"
    ELSE "r_read"

\* future.result(): the adapter's exception, or the response; the loop's
\* elapsed_time is not read again
future_result(c) ==
    /\ call[c].pc = "result"
    /\ call' = [call EXCEPT ![c].pc = after_result(call[c].worker = "raised", Family(c)),
                            ![c].clk = 0, ![c].inTime = FALSE]
    /\ UNCHANGED <<db, counted, overlapped, ledger, nCalls, callers, timeout, lmLive, ollamaModels>>
    /\ UNCHANGED <<storeVars, meterVars>>

\* the line log_usage builds from its arguments
LedgerEntry(c) == log_entry(ModelName(c), call[c].ptok, call[c].rtok)

\* token_accounting.log_usage: the append under the lock; an IOError is caught
log_usage(c, written) ==
    /\ call[c].pc = "log_usage"
    /\ ledger' = IF written THEN Append(ledger, LedgerEntry(c)) ELSE ledger
    /\ call' = [call EXCEPT ![c].pc = "r_read", ![c].nLogCall = @ + 1,
                            ![c].trace = Append(@, "ledger"),
                            ![c].nLog = IF written THEN @ + 1 ELSE @,
                            ![c].logErr = IF written THEN @ ELSE @ + 1]
    /\ UNCHANGED <<db, counted, overlapped, nCalls, callers, timeout, lmLive, ollamaModels>>
    /\ UNCHANGED <<storeVars, meterVars>>

\* update_global_token_usage(response): the count and update_token_usage up to its commit
response_read(c) ==
    /\ call[c].pc = "r_read"
    /\ call' = [call EXCEPT ![c].pc = "r_commit",
                            ![c].sel = SelectFirst(db, call[c].project),
                            ![c].stk = update_token_usage_stack(db, call[c].project, call[c].rtok)]
    /\ counted' = [counted EXCEPT ![call[c].project] = @ + call[c].rtok]
    /\ UNCHANGED <<db, overlapped, ledger, nCalls, callers, timeout, lmLive, ollamaModels>>
    /\ UNCHANGED <<storeVars, meterVars>>

ErrorEventsSilent(n) == n

\* emit_agent("inference", {"type": "error", ...}) in both except handlers
ErrorEvents(n) == n + 1

\* except TimeoutError / except Exception: logger.error and the error event
except_handler(c) ==
    /\ call[c].pc \in {"exc_timeout", "exc_error"}
    /\ call' = [call EXCEPT ![c].pc = "sys_exit", ![c].err = ErrorEvents(@),
                            ![c].clk = 0, ![c].inTime = FALSE]
    /\ UNCHANGED <<db, counted, overlapped, ledger, nCalls, callers, timeout, lmLive, ollamaModels>>
    /\ UNCHANGED <<storeVars, meterVars>>

\* sys.exit(): SystemExit leaves the with block through the executor's __exit__
sys_exit(c) ==
    /\ call[c].pc = "sys_exit"
    /\ call' = [call EXCEPT ![c].pc = "shutdown"]
    /\ UNCHANGED <<db, counted, overlapped, ledger, nCalls, callers, timeout, lmLive, ollamaModels>>
    /\ UNCHANGED <<storeVars, meterVars>>

\* ThreadPoolExecutor.__exit__: shutdown(wait=True) joins the worker thread
executor_shutdown(c) ==
    /\ call[c].pc = "shutdown"
    /\ call[c].worker # "running"
    /\ call' = [call EXCEPT ![c].pc = "exited"]
    /\ UNCHANGED <<db, counted, overlapped, ledger, nCalls, callers, timeout, lmLive, ollamaModels>>
    /\ UNCHANGED <<storeVars, meterVars>>

\* the state after construction: an empty table, no call made
InitIdle ==
    /\ db = <<>>
    /\ th = [t \in Threads |-> IdleThread]
    /\ sumDelta = [p \in Projects |-> 0]
    /\ autoViv = [p \in Projects |-> FALSE]
    /\ nOps = 0
    /\ call = [c \in Callers |-> IdleCall]
    /\ counted = [p \in Projects |-> 0]
    /\ overlapped = [p \in Projects |-> FALSE]
    /\ nCalls = 0
    /\ meter = [m \in Meters |-> "none"]
    /\ lock = [m \in Meters |-> None]
    /\ wr = [w \in Writers |-> IdleWriter]
    /\ appended = <<>>
    /\ nLogs = 0

\* no TokenAccountingModule has been constructed: no ledger file
NoLedger ==
    /\ ledger = <<>>
    /\ exists = FALSE
    /\ writable = TRUE

\* LLM.__init__ has constructed its TokenAccountingModule: the file has its header
LedgerReady ==
    /\ ledger = <<log_header>>
    /\ exists = TRUE
    /\ writable = TRUE

InitStore ==
    /\ InitIdle
    /\ NoLedger
    /\ callers = {}
    /\ timeout = 1
    /\ lmLive = TRUE
    /\ ollamaModels = <<>>

NextStore ==
    \/ \E t \in Threads, p \in Projects : create_state(t, p)
    \/ \E t \in Threads, p \in Projects, n \in 1..MaxTok : update_token_usage_read(t, p, n)
    \/ \E t \in Threads : update_token_usage_commit(t)

SpecStore == InitStore /\ [][NextStore]_vars

(***************************************************************************)
(* The store used by one caller: every operation of AgentState, each       *)
(* finished before the next begins.                                        *)
(***************************************************************************)
NextStoreSeq ==
    \/ \E p \in Projects : create_state("t1", p)
    \/ \E p \in Projects, state \in Snapshots : add_to_current_state_read("t1", p, state)
    \/ \E p \in Projects, state \in Snapshots : update_latest_state_read("t1", p, state)
    \/ \E p \in Projects, is_active \in BOOLEAN : set_agent_active_read("t1", p, is_active)
    \/ \E p \in Projects, is_completed \in BOOLEAN :
          set_agent_completed_read("t1", p, is_completed)
    \/ \E p \in Projects, n \in 1..MaxTok : update_token_usage_read("t1", p, n)
    \/ \E p \in Projects : delete_state_read("t1", p)
    \/ state_stack_commit("t1")
    \/ update_token_usage_commit("t1")
    \/ delete_state_commit("t1")

SpecStoreSeq == InitStore /\ [][NextStoreSeq]_vars

(***************************************************************************)
(* The store used by one caller for token accounting alone: a series of    *)
(* update_token_usage calls on projects that begin without a row.          *)
(***************************************************************************)
NextTokens ==
    \/ \E p \in Projects, n \in 0..MaxTok : update_token_usage_read("t1", p, n)
    \/ update_token_usage_commit("t1")

SpecTokens == InitStore /\ [][NextTokens]_vars

(***************************************************************************)
(* The catalog: LLM objects built with the local runtime listing no model, *)
(* one, two, or two entries without a name, and model_enum called with     *)
(* every display name of the catalog and with strings that are none.       *)
(***************************************************************************)
\* ollama.models as get_model_name names them
OllamaLists ==
    {<<>>, <<"llama3:latest">>, <<"llama3:latest", "mistral:latest">>,
     <<"unknown", "unknown">>}

\* the display names of catalog cat
DisplayNames(cat) == {cat[i][2] : i \in DOMAIN cat}

\* strings that are no display name: other letter case, model ids, family
\* names, a name with a blank added, the empty string
OtherNames ==
    {"gpt-4o", "GPT-4O", "Gpt-4o", "claude 3 opus", "lm studio", "local-model",
     "OPENAI", "LM_STUDIO", "Llama3:latest", "GPT-4o ", "gemini-pro", ""}

\* model_name, the argument of model_enum
Queries ==
    DisplayNames(StaticModels \o LMStudioModels)
        \cup {"llama3:latest", "mistral:latest", "unknown"} \cup OtherNames

InitCatalog ==
    /\ InitIdle
    /\ LedgerReady
    /\ callers = Callers
    /\ timeout = 1
    /\ lmLive = TRUE
    /\ ollamaModels \in OllamaLists

NextCatalog == \E c \in Callers, model_name \in Queries : model_enum_call(c, model_name)

SpecCatalog == InitCatalog /\ [][NextCatalog]_vars

(***************************************************************************)
(* The ledger: two threads that construct TokenAccountingModule instances  *)
(* on the one path and call log_usage on them, sharing an instance or not, *)
(* each call with one token in and one out.                                *)
(* The file is absent or holds its header to begin with, and the path is   *)
(* writable or not for the whole run.                                      *)
(***************************************************************************)
InitLedger ==
    /\ InitIdle
    /\ exists \in BOOLEAN
    /\ writable \in BOOLEAN
    /\ ledger = IF exists THEN <<log_header>> ELSE <<>>
    /\ callers = {}
    /\ timeout = 1
    /\ lmLive = TRUE
    /\ ollamaModels = <<>>

NextLedger ==
    \/ \E w \in Writers, m \in Meters, model_name \in LogModels :
          log_usage_entry(w, m, model_name, 1, 1)
    \/ \E w \in Writers : WriterStep(w)

SpecLedger == InitLedger /\ [][NextLedger]_vars

(***************************************************************************)
(* The ledger used by one thread: instances constructed and log_usage      *)
(* called with every model name and every pair of token counts.            *)
(***************************************************************************)
NextUsage ==
    \/ \E m \in Meters, model_name \in LogModels, i \in 0..MaxTok, o \in 0..MaxTok :
          log_usage_entry("w1", m, model_name, i, o)
    \/ WriterStep("w1")

SpecUsage == InitLedger /\ [][NextUsage]_vars

(***************************************************************************)
(* The steps of LLM.inference outside the polling loop.                    *)
(***************************************************************************)
DispatchStep(c) ==
    \/ token_usage_commit(c)
    \/ token_usage_emit(c)
    \/ inference_unsupported(c)
    \/ inference_submit(c)
    \/ future_result(c)
    \/ \E written \in BOOLEAN : log_usage(c, written)
    \/ response_read(c)
    \/ except_handler(c)
    \/ sys_exit(c)
    \/ executor_shutdown(c)

WorkerStep(c) == \E ok \in BOOLEAN, r \in 0..MaxTok : worker_finish(c, ok, r)

\* self.model_id: a metered model, a misspelt one, the local server (not metered)
ModelChoices == {"GPT-4o", "Gpt-4o", "LM Studio"}

(***************************************************************************)
(* The dispatcher: two threads, each calling LLM.inference once on one of  *)
(* the projects, the polling loop of a call taken as one step              *)
(* (await_future).                                                         *)
(***************************************************************************)
Init ==
    /\ InitIdle
    /\ LedgerReady
    /\ callers = Callers
    /\ timeout = 1
    /\ lmLive \in BOOLEAN
    /\ ollamaModels = <<>>

Next ==
    \/ \E c \in Callers, m \in ModelChoices, p \in Projects, n \in 1..MaxTok :
          call[c].pc = "idle" /\ inference_start(c, m, p, n)
    \/ \E c \in Callers : DispatchStep(c)
    \/ \E c \in Callers, timedOut \in BOOLEAN : await_future(c, timedOut)
    \/ \E c \in Callers : WorkerStep(c)

Spec == Init /\ [][Next]_vars

(***************************************************************************)
(* The bounded executor: one caller, every configured timeout, the polling *)
(* loop pass by pass and its clock tick by tick.                           *)
(***************************************************************************)
InitExec ==
    /\ InitIdle
    /\ LedgerReady
    /\ callers = {"c1"}
    /\ timeout \in 1..MaxTimeoutSec
    /\ lmLive \in BOOLEAN
    /\ ollamaModels = <<>>

InferenceStep(c) ==
    \/ DispatchStep(c)
    \/ poll(c)
    \/ \E wake \in BOOLEAN : sleep_tick(c, wake)

NextExec ==
    \/ \E m \in ModelChoices : inference_start("c1", m, "p1", 1)
    \/ InferenceStep("c1")
    \/ WorkerStep("c1")

SpecExec == InitExec /\ [][NextExec]_vars

\* the calling thread always gets to run; the adapter call may never return
FairSpecExec == SpecExec /\ WF_vars(InferenceStep("c1"))

(***************************************************************************)
(* The claims.                                                             *)
(***************************************************************************)
SlowTicks == SlowSecond * TicksPerSec

\* C1: for every display name that does not resolve, inference fails with
\* the unsupported-model error having made no adapter call, no ledger write,
\* no update of the project's token usage and no "tokens" event.
C1_UnsupportedHasNoEffect ==
    \A c \in Callers :
        (call[c].pc = "raised" /\ Family(c) = None)
            => /\ ~call[c].submitted
               /\ call[c].nLog = 0
               /\ call[c].nUpd = 0
               /\ call[c].nTok = 0

AllIdle == \A t \in Threads : th[t].op = "idle"

\* C2: for any interleaving of concurrent update_token_usage calls on one
\* existing project no update is lost: once all calls have finished, the top
\* element's token_usage is its initial value (0, as create_state stores it)
\* plus the sum of all deltas.
C2_NoLostUpdate ==
    \A p \in Projects :
        (AllIdle /\ ~autoViv[p] /\ SelectFirst(db, p) # 0)
            => get_latest_token_usage(db, p) = sumDelta[p]

\* a call on p has counted a string and not yet committed its update
MidUpdate(p) ==
    \E c \in Callers : call[c].project = p /\ call[c].pc \in {"p_commit", "r_commit"}

\* C3: with at most one inference call in flight per project and any
\* interleaving between projects, each project's get_latest_token_usage is
\* the sum of the prompt and response token counts of its own calls.
C3_AdditivePerProject ==
    \A p \in Projects :
        (~overlapped[p] /\ ~MidUpdate(p)) => get_latest_token_usage(db, p) = counted[p]

\* two successful calls on two projects, both prompt and response counted
C3_Witness ==
    /\ call["c1"].pc = "returned" /\ call["c2"].pc = "returned"
    /\ call["c1"].project # call["c2"].project
    /\ \A p \in Projects : ~overlapped[p] /\ get_latest_token_usage(db, p) >= 2

\* C4: the executor fails with the timeout exactly when the adapter call has
\* not completed once elapsed time exceeds the timeout: a call whose worker
\* returned no later than the timeout is never failed with the timeout, and a
\* result is only taken from a worker that finished no later than the timeout.
C4_TimeoutIffNotCompleted ==
    \A c \in Callers :
        /\ call[c].pc = "exc_timeout" => ~(call[c].worker = "ok" /\ call[c].inTime)
        /\ call[c].pc = "result" => call[c].inTime

\* C5: once the timeout has been detected, inference ends (the process
\* terminates) whether or not the worker ever finishes.
C5_TimeoutEndsWithoutWorker ==
    (call["c1"].pc = "exc_timeout") ~> (call["c1"].pc = "exited")

\* the run of the executor is over: the loop was left by break or by the timeout
RunOver(c) == call[c].pc \in {"result", "exc_timeout"}

\* C6: in one run of the executor at most one slow warning is emitted: none
\* if the run ends before 5 s, one once a poll has seen 5 s elapsed.
C6_ExactlyOneSlowWarning ==
    \A c \in Callers :
        /\ call[c].warn <= 1
        /\ (RunOver(c) /\ call[c].clk < SlowTicks) => call[c].warn = 0
        /\ (RunOver(c) /\ call[c].clk >= SlowTicks) => call[c].warn = 1

C8_ErrorEventBeforeExit ==
    \A c \in Callers :
        call[c].pc \in {"sys_exit", "shutdown", "exited"} => call[c].err >= 1

\* termination initiated after a timeout, the worker still running
C8_Witness ==
    /\ call["c1"].pc = "shutdown"
    /\ call["c1"].worker = "running"
    /\ call["c1"].err = 1

\* C9: when the display name resolves to a family whose adapter has no live
\* client (LM Studio), inference fails with an error raised to the caller:
\* it neither returns nor terminates the process.
C9_UnavailableProviderRaises ==
    \A c \in Callers :
        (Family(c) = "LM_STUDIO" /\ ~lmLive)
            => call[c].pc \notin {"sys_exit", "shutdown", "exited", "returned"}

\* C10: each total emitted on "tokens" is the project's stored cumulative
\* usage after the addition, as get_latest_token_usage returns it then.
C10_EmittedTotalIsStored ==
    \A c \in Callers : call[c].nTok > 0 => call[c].lastTokens = call[c].lastStored

\* the metered provider families
MeteredFamilies == {"OPENAI", "CLAUDE", "GOOGLE", "MISTRAL", "GROQ"}

\* the call is over: it returned, raised to its caller, or ended the process
CallOver(c) == call[c].pc \in {"returned", "raised", "exited"}

\* C11: a ledger line is written exactly once per inference call that returns
\* on a metered family, and never for an unmetered family nor for a call that
\* timed out, whose adapter failed, or whose model was not resolved.
C11_LedgerLineExactlyOnce ==
    \A c \in Callers :
        CallOver(c) =>
            call[c].nLog = IF call[c].pc = "returned" /\ Family(c) \in MeteredFamilies
                           THEN 1 ELSE 0

\* C11, amended: log_usage is invoked exactly once per inference call that
\* returns on a metered family and never otherwise; the invocation appends
\* one ledger line unless the append fails with the caught IOError, and then
\* it appends none.
C11_LogUsageExactlyOnce ==
    \A c \in Callers :
        CallOver(c) =>
            /\ call[c].nLogCall = IF call[c].pc = "returned" /\ Family(c) \in MeteredFamilies
                                  THEN 1 ELSE 0
            /\ call[c].logErr <= call[c].nLogCall
            /\ call[c].nLog = call[c].nLogCall - call[c].logErr

\* a metered call returned with its line in the ledger
C11_Witness ==
    /\ call["c1"].pc = "returned"
    /\ Family("c1") \in MeteredFamilies
    /\ call["c1"].nLog = 1
    /\ ledger = <<log_header, LedgerEntry("c1")>>

\* the ledger threads that have the file open for appending
Appending == {w \in Writers : wr[w].pc = "write"}

\* C12: writers to the shared ledger are serialized: at no time do two
\* log_usage calls have the one ledger file open for appending, whether they
\* go through the same TokenAccountingModule instance or through two.
C12_WritersSerialized == Cardinality(Appending) <= 1

\* C13: after any interleaving of constructions and log_usage calls on the
\* path, the ledger is the header, once and first, followed by every line a
\* log_usage call appended.
C13_HeaderThenEveryLine == exists => ledger = <<log_header>> \o appended

\* C14: when the append fails the failure is caught: log_usage goes on to
\* return the line it built, the ledger holds no line of the call (it is as
\* it was found, absent or the header alone), and the instance's lock is
\* released, none being held once every call has returned.
C14_FailedAppendIsSwallowed ==
    /\ \A w \in Writers :
          wr[w].failed =>
              /\ wr[w].pc \in {"return", "idle"}
              /\ lock[wr[w].meter] # w
              /\ wr[w].returned => (wr[w].ret = wr[w].entry /\ wr[w].ret.line = "entry")
              /\ appended = <<>>
              /\ ledger = IF exists THEN <<log_header>> ELSE <<>>
    /\ (\A w \in Writers : wr[w].pc = "idle") => \A m \in Meters : lock[m] = None

\* two log_usage calls on the one instance, one after the other, have both
\* failed to append and both returned their line
C14_Witness ==
    /\ \A w \in Writers : wr[w].failed /\ wr[w].returned /\ wr[w].meter = "m1"
    /\ nLogs = 2
    /\ ~exists

\* the lines log_usage has produced: those in the file and those returned
ProducedLines ==
    {ledger[i] : i \in DOMAIN ledger} \cup {wr[w].ret : w \in Writers}

\* C15: in every line log_usage produces from token counts that are not
\* negative, the total is the sum of the two counts, the cost is the counts
\* weighted by the rates of the exactly matching name, never negative, and 0
\* for a name the rate table lacks, which is not an error.
C15_EntryArithmetic ==
    \A e \in ProducedLines :
        e.line = "entry" =>
            /\ e.total_tokens = e.input_tokens + e.output_tokens
            /\ e.estimated_cost >= 0
            /\ e.model_name \in DOMAIN DEFAULT_MODEL_RATES =>
                  e.estimated_cost =
                      e.input_tokens * DEFAULT_MODEL_RATES[e.model_name].input_per_token
                      + e.output_tokens * DEFAULT_MODEL_RATES[e.model_name].output_per_token
            /\ e.model_name \notin DOMAIN DEFAULT_MODEL_RATES => e.estimated_cost = 0

\* the file holds a line of a rated model with both counts positive, and a
\* call for a model without a rate has returned its line
C15_Witness ==
    /\ \E i \in DOMAIN ledger :
          /\ ledger[i].line = "entry"
          /\ ledger[i].model_name = "Gemini 2.5 Pro"
          /\ ledger[i].input_tokens > 0
          /\ ledger[i].output_tokens > 0
          /\ ledger[i].estimated_cost > 0
    /\ \E w \in Writers :
          /\ wr[w].returned
          /\ wr[w].ret.model_name = "gpt-4o"
          /\ wr[w].ret.input_tokens > 0
          /\ wr[w].ret.estimated_cost = 0

\* thread t finishes operation op in this step
Finishes(t, op) == th[t].op = op /\ th'[t].op = "idle"

\* the elements of stack old below its top are those of stack new
BelowTopKept(old, new) ==
    /\ Len(new) >= Len(old) - 1
    /\ \A i \in 1..(Len(old) - 1) : new[i] = old[i]

\* C16: add_to_current_state makes the project's stack one longer, a project
\* without a row counting as length 0; the pushed snapshot is the last
\* element and the stack as it was is the prefix before it.
C16_PushAppendsOne ==
    [][\A t \in Threads :
          Finishes(t, "add_to_current_state") =>
              LET old == get_current_state(db, th[t].project)
                  new == get_current_state(db', th[t].project)
              IN  /\ Len(new) = Len(old) + 1
                  /\ Last(new) = th[t].state
                  /\ SubSeq(new, 1, Len(old)) = old]_vars

\* a snapshot has been pushed on the stack create_state stored and another on
\* top of it
C16_Witness ==
    /\ th["t1"].did = "add_to_current_state"
    /\ th["t1"].on = "p1"
    /\ Len(get_current_state(db, "p1")) = 3
    /\ get_current_state(db, "p1")[1] = create_state_stack[1]
    /\ Last(get_current_state(db, "p1")) \in Snapshots

\* C17: update_latest_state keeps the length of the stack of a project that
\* has one and overwrites its last element alone with the snapshot; for a
\* project without a row it stores the one-element stack of the snapshot.
C17_ReplaceTopKeepsLength ==
    [][\A t \in Threads :
          Finishes(t, "update_latest_state") =>
              LET old == get_current_state(db, th[t].project)
                  new == get_current_state(db', th[t].project)
              IN  IF old = <<>> THEN new = <<th[t].state>>
                  ELSE /\ Len(new) = Len(old)
                       /\ Last(new) = th[t].state
                       /\ BelowTopKept(old, new)]_vars

\* the top of a two-element stack has been overwritten: it had counted
\* tokens and is now the snapshot, above the element create_state stored
C17_Witness ==
    /\ th["t1"].did = "update_latest_state"
    /\ th["t1"].on = "p1"
    /\ sumDelta["p1"] > 0
    /\ Len(get_current_state(db, "p1")) = 2
    /\ get_current_state(db, "p1")[1] = create_state_stack[1]
    /\ Last(get_current_state(db, "p1")) \in Snapshots

\* no stored stack is empty
NoEmptyStack == \A i \in DOMAIN db : db[i].stack # <<>>

\* the snapshot an operation stores for a project without a row: new_state()
\* with the one field the operation is about set to its argument
FreshFor(t) ==
    CASE th[t].op = "set_agent_active" -> [new_state EXCEPT !.agent_is_active = th[t].flag]
      [] th[t].op = "set_agent_completed" -> [new_state EXCEPT !.completed = th[t].flag]
      [] th[t].op = "update_token_usage" -> [new_state EXCEPT !.token_usage = th[t].n]

\* C18: set_agent_active, set_agent_completed and update_token_usage on a
\* project without a row store a stack of one element, a fresh snapshot
\* with only the field in question set to the argument; and in every state
\* each stored stack has at least one element.
C18_AutoCreateOneElement ==
    /\ []NoEmptyStack
    /\ [][\A t \in Threads :
             /\ th[t].op \in {"set_agent_active", "set_agent_completed", "update_token_usage"}
             /\ th'[t].op = "idle"
             /\ get_current_state(db, th[t].project) = <<>>
             => get_current_state(db', th[t].project) = <<FreshFor(t)>>]_vars

\* set_agent_completed(p1, True) has just created p1, whose one snapshot has
\* the empty monologue of new_state; p2 was created by set_agent_active(p2, False)
C18_Witness ==
    /\ th["t1"].did = "set_agent_completed"
    /\ th["t1"].on = "p1"
    /\ get_current_state(db, "p1") = <<[new_state EXCEPT !.completed = TRUE]>>
    /\ get_current_state(db, "p2") = <<[new_state EXCEPT !.agent_is_active = FALSE]>>

\* the threads whose operation, not delete_state, commits in this step
Committing == {t \in Threads : th[t].op \notin {"idle", "delete_state"} /\ th'[t].op = "idle"}

\* the project this step writes to: that of the row it inserts or of the
\* operation that commits; None for a step that writes nothing
Target ==
    IF Len(db') > Len(db) THEN Last(db').project
    ELSE IF Committing # {} THEN th[CHOOSE t \in Committing : TRUE].project
    ELSE None

\* C19: only the top element of a stack is changed in place: a step of any
\* operation but delete_state leaves the elements below the top of its
\* project's stack as they were and the stack of every other project as it
\* was.
C19_OnlyTopMutated ==
    [][(\A t \in Threads : ~Finishes(t, "delete_state")) =>
          \A p \in Projects :
              LET old == get_current_state(db, p)
                  new == get_current_state(db', p)
              IN  IF p = Target
                  THEN Len(new) >= Len(old) /\ BelowTopKept(old, new)
                  ELSE new = old]_vars

\* set_agent_active(p1, False) has changed the top of a two-element stack:
\* the element below still has the flag new_state gave it, and p2 has a stack
C19_Witness ==
    /\ th["t1"].did = "set_agent_active"
    /\ th["t1"].on = "p1"
    /\ Len(get_current_state(db, "p1")) = 2
    /\ ~get_current_state(db, "p1")[2].agent_is_active
    /\ get_current_state(db, "p1")[1].agent_is_active
    /\ get_current_state(db, "p2") # <<>>

\* the rows of project p, in the order of the table
RowsSeq(d, p) == SelectSeq(d, LAMBDA r : r.project = p)

\* C20: delete_state removes all that is stored for the project: afterwards
\* get_current_state and get_latest_state find no row and
\* get_latest_token_usage is 0; on a project without a row it changes
\* nothing and does not raise, so deleting twice is deleting once; the rows
\* of the other projects stay as they were.
C20_DeleteRemovesAll ==
    [][\A t \in Threads :
          Finishes(t, "delete_state") =>
              LET p == th[t].project
              IN  /\ RowsOf(db', p) = {}
                  /\ SelectFirst(db', p) = 0
                  /\ get_current_state(db', p) = <<>>
                  /\ get_latest_token_usage(db', p) = 0
                  /\ RowsOf(db, p) = {} => db' = db
                  /\ \A q \in Projects \ {p} : RowsSeq(db', q) = RowsSeq(db, q)]_vars

\* delete_state(p1) has returned: p1 had counted tokens and has no row now,
\* p2 still has its stack
C20_Witness ==
    /\ th["t1"].did = "delete_state"
    /\ th["t1"].on = "p1"
    /\ sumDelta["p1"] > 0
    /\ RowsOf(db, "p1") = {}
    /\ get_latest_token_usage(db, "p1") = 0
    /\ get_current_state(db, "p2") # <<>>

\* C21: for a project that begins without a row, after a series of
\* update_token_usage calls with deltas that are not negative and nothing
\* else in between, get_latest_token_usage returns the sum of the deltas;
\* for a project without a row it returns 0.
C21_UsageIsSumOfDeltas ==
    \A p \in Projects :
        /\ get_latest_token_usage(db, p) = sumDelta[p]
        /\ RowsOf(db, p) = {} => get_latest_token_usage(db, p) = 0

\* three calls on p1, the last just returned, have added up to 2 or more in
\* the one snapshot the first of them stored; p2 has no row
C21_Witness ==
    /\ th["t1"].did = "update_token_usage"
    /\ nOps >= 3
    /\ sumDelta["p1"] >= 2
    /\ get_latest_token_usage(db, "p1") = sumDelta["p1"]
    /\ Len(get_current_state(db, "p1")) = 1
    /\ RowsOf(db, "p2") = {}
    /\ get_latest_token_usage(db, "p2") = 0

\* the stack the operation thread t finishes in this step has persisted: that
\* of the row it inserted or of the row it updated
Persisted(t) ==
    IF th[t].sel = 0 THEN Last(db').stack ELSE StackOf(db', th[t].sel)

\* thread t runs create_state in this step
Creates(t) ==
    th[t].op = "idle" /\ th'[t].op = "idle" /\ th'[t].did = "create_state" /\ nOps' # nOps

\* C22: create_state, add_to_current_state, update_latest_state,
\* set_agent_active and set_agent_completed emit on "agent-state" the whole
\* stack the operation has persisted for the project, never a part of it;
\* update_token_usage and delete_state emit no such event.
C22_EmitsWholeStack ==
    [][\A t \in Threads :
          /\ Creates(t) =>
                /\ Last(db').project = th'[t].on
                /\ th'[t].emit = Last(db').stack
          /\ (\E op \in StackOps : Finishes(t, op)) =>
                /\ th'[t].emit = Persisted(t)
                /\ th'[t].emit = get_current_state(db', th[t].project)
          /\ (Finishes(t, "update_token_usage") \/ Finishes(t, "delete_state")) =>
                th'[t].emit = <<>>]_vars

\* set_agent_active(p1, False) has emitted the stack of three elements it
\* stored, the flag changed in the last of them
C22_Witness ==
    /\ th["t1"].did = "set_agent_active"
    /\ th["t1"].on = "p1"
    /\ Len(th["t1"].emit) = 3
    /\ th["t1"].emit = get_current_state(db, "p1")
    /\ ~Last(th["t1"].emit).agent_is_active

\* the monologue set_agent_completed writes
CompletionMonologue == "Agent has completed the task."

\* C23: after set_agent_completed(project, b), for a project that had a row
\* and for one the call created, the top element has completed = b and the
\* completion monologue, its other fields being as they were (as new_state
\* gives them for a project the call created).
C23_CompletedWithMonologue ==
    [][\A t \in Threads :
          Finishes(t, "set_agent_completed") =>
              LET old == get_current_state(db, th[t].project)
                  new == get_current_state(db', th[t].project)
                  base == IF old = <<>> THEN new_state ELSE Last(old)
              IN  Last(new) = [base EXCEPT !.completed = th[t].flag,
                                           !.internal_monologue = CompletionMonologue]]_vars

\* C24: the table holds at most one row per project, after any sequence or
\* interleaving of the store's operations.
C24_OneRowPerProject == \A p \in Projects : Cardinality(RowsOf(db, p)) <= 1

\* C25: model_enum matches the display name exactly, letter case included:
\* for a display name of the catalog it returns the family and the model id
\* of that entry, and for any other string (None, None).
C25_ResolveExact ==
    \A c \in Callers :
        LET cat == models(ollamaModels)
            q == call[c].asked
        IN  /\ \A i \in DOMAIN cat :
                  cat[i][2] = q => call[c].found = <<cat[i][1], cat[i][3]>>
            /\ (\A i \in DOMAIN cat : cat[i][2] # q) => call[c].found = <<None, None>>

\* "GPT-4o" has resolved to its entry, "gpt-4o" (its model id, and the name
\* in lower case) to nothing, the local runtime listing a model
C25_Witness ==
    /\ ollamaModels # <<>>
    /\ call["c1"].asked = "GPT-4o"
    /\ call["c1"].found = <<"OPENAI", "gpt-4o">>
    /\ call["c2"].asked = "gpt-4o"
    /\ call["c2"].found = <<None, None>>

\* the side effects of a call that succeeds, in the order claimed
ExpectedTrace(c) ==
    IF Family(c) \in MeteredFamilies
    THEN <<"prompt", "adapter", "ledger", "response">>
    ELSE <<"prompt", "adapter", "response">>

IsPrefix(s, t) == Len(s) <= Len(t) /\ SubSeq(t, 1, Len(s)) = s

\* C26: within one inference call the side effects come in this order: the
\* prompt's token-usage update, the start of the adapter call, the ledger
\* write if the family is metered, the response's token-usage update, the
\* return; the response's update comes only once the adapter call has
\* completed.
C26_SideEffectOrder ==
    \A c \in Callers :
        /\ IsPrefix(call[c].trace, ExpectedTrace(c))
        /\ call[c].pc = "returned" => call[c].trace = ExpectedTrace(c)
        /\ (\E i \in DOMAIN call[c].trace : call[c].trace[i] \in {"ledger", "response"})
              => call[c].worker = "ok"

\* a metered call has returned with its four side effects done
C26_Witness ==
    /\ call["c1"].pc = "returned"
    /\ call["c1"].trace = <<"prompt", "adapter", "ledger", "response">>
    /\ call["c1"].nUpd = 2

\* C27: over store operations other than delete_state, the usage that
\* get_latest_token_usage reports for a project never decreases; pushing a
\* snapshot or replacing the top does not lower what update_token_usage
\* has accumulated.
C27_UsageNeverDecreases ==
    [][(\A t \in Threads : ~Finishes(t, "delete_state"))
          => \A p \in Projects :
                get_latest_token_usage(db', p) >= get_latest_token_usage(db, p)]_vars

=============================================================================
